---- MODULE Spec2Model ----
(***************************************************************************)
(* Model of the redis example service adapter: the manifest generator      *)
(* (adapter/redis_manifest_generator.go) and the binder                     *)
(* (adapter/redis_binding.go).                                              *)
(*                                                                         *)
(* Go strings that the code inspects character by character (release       *)
(* versions, credhub references, secret names) are sequences of            *)
(* one-character strings.  Strings the code only copies or compares whole  *)
(* (release names, job names, parameter keys, passwords, addresses) are    *)
(* TLA+ strings.  A message (an error's text, a log line) is the sequence  *)
(* of the fragments that fmt.Sprintf concatenates: the format's literal    *)
(* pieces and the formatted arguments.  The empty string is <<>>.          *)
(*                                                                         *)
(* A record lists its fields in the order in which TLC keeps them, so that  *)
(* no worker has to reorder a record another worker is reading.             *)
(***************************************************************************)
EXTENDS Integers, Sequences, FiniteSets, TLC

VARIABLES
    deployed,        \* the manifest the broker holds for the deployment: <<>> or <<manifest>>
    call,            \* the last GenerateManifest call: its inputs, the password generator's
                     \* outcome if it was invoked, and what the call returned
    generatorCalls,  \* how many times CurrentPasswordGenerator has been invoked
    createPassword,  \* history: <<>> or <<the password of the first successful manifest>>
    highest,         \* history: <<>> or <<the highest redis-server release version of the
                     \* grammar among the successful manifests so far>>
    bind             \* the last Binder call: its inputs and what it returned

vars == <<deployed, call, generatorCalls, createPassword, highest, bind>>

-----------------------------------------------------------------------------
(* Bounds of the model *)

MaxGeneratorCalls == 2 \* password generator invocations per behaviour
MaxInstances == 2      \* addresses per instance group of a topology

-----------------------------------------------------------------------------
(* Constants of the program *)

RedisServerJobName == "redis-server"
RedisServerPersistencePropertyKey == "persistence"
RedisServerPort == 6379
DefaultMaxClients == 10000

-----------------------------------------------------------------------------
(* Go values *)

\* a nil pointer, nil map or nil interface value
Nil == <<>>

\* the nil error, and an error carrying a message
NoError == [isErr |-> FALSE, msg |-> <<>>]
ErrorOf(message) == [isErr |-> TRUE, msg |-> message]

\* strings.Join(elems, sep), as message fragments
RECURSIVE Join(_, _)
Join(elems, sep) ==
    IF Len(elems) = 0 THEN <<>>
    ELSE IF Len(elems) = 1 THEN <<elems[1]>>
    ELSE <<elems[1], sep>> \o Join(Tail(elems), sep)

Range(s) == {s[i] : i \in DOMAIN s}

\* binds a value to a name: With(e, LAMBDA x : body) is body with x = e
With(value, Body(_)) == Body(value)

\* message m carries the text t (a fragment sequence) somewhere
Mentions(m, t) ==
    \E i \in 1..(Len(m) - Len(t) + 1) : SubSeq(m, i, i + Len(t) - 1) = t

\* the orders in which a Go range statement may visit the keys of map m
MapOrders(m) ==
    LET n == Cardinality(DOMAIN m)
    IN {o \in [1..n -> DOMAIN m] : Range(o) = DOMAIN m}

Digits == <<"0", "1", "2", "3", "4", "5", "6", "7", "8", "9">>
IsDigit(c) == \E i \in 1..10 : Digits[i] = c
DigitValue(c) == (CHOOSE i \in 1..10 : Digits[i] = c) - 1

\* the decimal text of n >= 0 (the %d verb)
RECURSIVE Itoa(_)
Itoa(n) == IF n < 10 THEN <<Digits[n + 1]>> ELSE Itoa(n \div 10) \o <<Digits[(n % 10) + 1]>>

RECURSIVE DecimalValue(_)
DecimalValue(ds) ==
    IF ds = <<>> THEN 0
    ELSE 10 * DecimalValue(SubSeq(ds, 1, Len(ds) - 1)) + DigitValue(ds[Len(ds)])

RECURSIVE StripZeros(_)
StripZeros(ds) == IF Len(ds) > 1 /\ ds[1] = "0" THEN StripZeros(Tail(ds)) ELSE ds

\* the digits of the largest Go int, 2^63 - 1
MaxIntDigits ==
    <<"9", "2", "2", "3", "3", "7", "2", "0", "3", "6",
      "8", "5", "4", "7", "7", "5", "8", "0", "7">>

RECURSIVE DigitsGreater(_, _)
\* a > b for two digit strings of the same length
DigitsGreater(a, b) ==
    IF a = <<>> THEN FALSE
    ELSE IF a[1] # b[1] THEN DigitValue(a[1]) > DigitValue(b[1])
    ELSE DigitsGreater(Tail(a), Tail(b))

\* strconv.Atoi on a string of digits: the value, or a range error when it
\* does not fit an int.  (The model's in-range inputs stay below 2^31.)
Atoi(ds) ==
    LET t == StripZeros(ds)
        outOfRange ==
            \/ Len(t) > Len(MaxIntDigits)
            \/ Len(t) = Len(MaxIntDigits) /\ DigitsGreater(t, MaxIntDigits)
    IN IF outOfRange
       THEN [n |-> 0,
             err |-> ErrorOf(<<"strconv.Atoi: parsing \"">> \o ds \o <<"\": value out of range">>)]
       ELSE [n |-> DecimalValue(t), err |-> NoError]

-----------------------------------------------------------------------------
(* Release versions *)

RECURSIVE DigitRun(_, _)
\* \d+ from index i of s: the index just past the longest run of digits
DigitRun(s, i) == IF i <= Len(s) /\ IsDigit(s[i]) THEN DigitRun(s, i + 1) ELSE i

\* the literal lit stands in s at index i
HasAt(s, i, lit) ==
    /\ i + Len(lit) - 1 <= Len(s)
    /\ SubSeq(s, i, i + Len(lit) - 1) = lit

\* versionRegexp.FindStringSubmatch for ^(\d+)(?:\.(\d+))?(?:\+dev\.(\d+))?$ :
\* <<>> when there is no match, else <<whole, group 1, group 2, group 3>>,
\* a group that took no part being the empty string
versionRegexp(s) ==
    LET dev == <<"+", "d", "e", "v", ".">>
        \* (?:\.(\d+))? from index e1: the index past it, e1 when it takes no part
        Minor(e1) == IF HasAt(s, e1, <<".">>) /\ DigitRun(s, e1 + 1) > e1 + 1
                     THEN DigitRun(s, e1 + 1) ELSE e1
        \* (?:\+dev\.(\d+))? from index e2
        Patch(e2) == IF HasAt(s, e2, dev) /\ DigitRun(s, e2 + Len(dev)) > e2 + Len(dev)
                     THEN DigitRun(s, e2 + Len(dev)) ELSE e2
    IN With(DigitRun(s, 1), LAMBDA e1 :
       With(Minor(e1), LAMBDA e2 :
       With(Patch(e2), LAMBDA e3 :
         IF e1 > 1 /\ e3 = Len(s) + 1
         THEN <<s,
                SubSeq(s, 1, e1 - 1),
                IF e2 > e1 THEN SubSeq(s, e1 + 1, e2 - 1) ELSE <<>>,
                IF e3 > e2 THEN SubSeq(s, e2 + Len(dev), e3 - 1) ELSE <<>> >>
         ELSE <<>>)))

ParseFailure(e) == [err |-> e, major |-> 0, minor |-> 0, patch |-> 0]

\* strconv.Atoi on a capture group that took part in the match
AtoiIfPresent(group) == IF group # <<>> THEN Atoi(group) ELSE [n |-> 0, err |-> NoError]

parseReleaseVersion(versionString) ==
    With(versionRegexp(versionString), LAMBDA submatches :
      IF Len(submatches) = 0
      THEN ParseFailure(ErrorOf(versionString \o <<" is not a valid BOSH release version">>))
      ELSE With(Atoi(submatches[2]), LAMBDA major :
           With(AtoiIfPresent(submatches[3]), LAMBDA minor :
           With(AtoiIfPresent(submatches[4]), LAMBDA patch :
             IF major.err.isErr THEN ParseFailure(major.err)
             ELSE IF minor.err.isErr THEN ParseFailure(minor.err)
             ELSE IF patch.err.isErr THEN ParseFailure(patch.err)
             ELSE [err |-> NoError, major |-> major.n, minor |-> minor.n,
                   patch |-> patch.n]))))

\* mutant: equal patch numbers count as a downgrade
oldGreaterThanNew_orEqual(oldMajorVersion, oldMinorVersion, oldPatchVersion, newMajorVersion, newMinorVersion, newPatchVersion) ==
    IF oldMajorVersion # newMajorVersion THEN oldMajorVersion > newMajorVersion
    ELSE IF oldMinorVersion # newMinorVersion THEN oldMinorVersion > newMinorVersion
    ELSE oldPatchVersion >= newPatchVersion

\* mutant: only the major numbers are compared
oldGreaterThanNew_majorOnly(oldMajorVersion, oldMinorVersion, oldPatchVersion, newMajorVersion, newMinorVersion, newPatchVersion) ==
    oldMajorVersion > newMajorVersion

oldGreaterThanNew(oldMajorVersion, oldMinorVersion, oldPatchVersion, newMajorVersion, newMinorVersion, newPatchVersion) ==
    IF oldMajorVersion # newMajorVersion THEN oldMajorVersion > newMajorVersion
    ELSE IF oldMinorVersion # newMinorVersion THEN oldMinorVersion > newMinorVersion
    ELSE oldPatchVersion > newPatchVersion

Latest == <<"l", "a", "t", "e", "s", "t">>

\* the release versions of the model
V2_4 == <<"2", ".", "4">>
V2_5 == <<"2", ".", "5">>
V2_10 == <<"2", ".", "1", "0">>
V2_5dev1 == <<"2", ".", "5", "+", "d", "e", "v", ".", "1">>
\* outside the version grammar
VBeta == <<"2", ".", "x">>
\* inside the version grammar, with a major number above the largest int
VHuge == <<"1", "0", "0", "0", "0", "0", "0", "0", "0", "0",
           "0", "0", "0", "0", "0", "0", "0", "0", "0", "0">>

Versions == {Latest, V2_4, V2_5, V2_10, V2_5dev1, VBeta, VHuge}

\* the versions above that match the grammar MAJOR[.MINOR][+dev.PATCH]
GrammarVersions == {V2_4, V2_5, V2_10, V2_5dev1, VHuge}

\* the (major, minor, patch) numbers a version of the grammar denotes, each
\* as its decimal digits, a missing component being 0
Components(v) ==
    CASE v = V2_4 -> << <<"2">>, <<"4">>, <<"0">> >>
      [] v = V2_5 -> << <<"2">>, <<"5">>, <<"0">> >>
      [] v = V2_10 -> << <<"2">>, <<"1", "0">>, <<"0">> >>
      [] v = V2_5dev1 -> << <<"2">>, <<"5">>, <<"1">> >>
      [] v = VHuge -> << VHuge, <<"0">>, <<"0">> >>

\* a < b for two natural numbers given by their digits, without leading zeros
NumLess(a, b) ==
    \/ Len(a) < Len(b)
    \/ Len(a) = Len(b) /\ DigitsGreater(b, a)

\* version v denotes a triple lexicographically lower than that of version w
LexLower(v, w) ==
    LET x == Components(v)
        y == Components(w)
    IN \/ NumLess(x[1], y[1])
       \/ x[1] = y[1] /\ NumLess(x[2], y[2])
       \/ x[1] = y[1] /\ x[2] = y[2] /\ NumLess(x[3], y[3])

-----------------------------------------------------------------------------
(* Manifest generator *)

\* bosh.Update{}
EmptyUpdate ==
    [Canaries |-> 0, MaxInFlight |-> 0, CanaryWatchTime |-> "", UpdateWatchTime |-> "",
     Serial |-> Nil]

\* bosh.BoshManifest{}
EmptyManifest ==
    [Name |-> "", Releases |-> <<>>, Stemcells |-> <<>>, InstanceGroups |-> <<>>,
     Update |-> EmptyUpdate, Properties |-> Nil]

\* update is the plan's pointer to its update block: <<>> or <<the block>>
generateUpdateBlock(update) ==
    IF update # Nil
    THEN [Canaries |-> update[1].Canaries,
          MaxInFlight |-> update[1].MaxInFlight,
          CanaryWatchTime |-> update[1].CanaryWatchTime,
          UpdateWatchTime |-> update[1].UpdateWatchTime,
          Serial |-> update[1].Serial]
    ELSE [Canaries |-> 1,
          MaxInFlight |-> 4,
          CanaryWatchTime |-> "30000-240000",
          UpdateWatchTime |-> "30000-240000",
          Serial |-> Nil]

findIllegalArbitraryParams(arbitraryParams, order) ==
    SelectSeq(order, LAMBDA k : k # "maxclients")

\* a pointer to the first instance group of the plan named redis-server, or nil
findRedisServerInstanceGroup(plan) ==
    LET found == SelectSeq(plan.InstanceGroups, LAMBDA g : g.Name = RedisServerJobName)
    IN IF Len(found) = 0 THEN Nil ELSE <<found[1]>>

RECURSIVE Occurrences(_, _)
Occurrences(jobs, job) ==
    IF jobs = <<>> THEN 0
    ELSE (IF Head(jobs) = job THEN 1 ELSE 0) + Occurrences(Tail(jobs), job)

RECURSIVE releasesThatProvide(_, _)
\* the loops of findReleaseForJob: a release is appended once for every entry
\* of its job list that equals requiredJob
releasesThatProvide(requiredJob, releases) ==
    IF releases = <<>> THEN <<>>
    ELSE [i \in 1..Occurrences(Head(releases).Jobs, requiredJob) |-> Head(releases)]
         \o releasesThatProvide(requiredJob, Tail(releases))

NoRelease == [Name |-> "", Jobs |-> <<>>, Version |-> <<>>]

\* mutant: of several providing releases the first is taken
findReleaseForJob_first(requiredJob, releases) ==
    LET releasesThatProvideRequiredJob == releasesThatProvide(requiredJob, releases)
    IN IF Len(releasesThatProvideRequiredJob) = 0
       THEN [err |-> ErrorOf(<<"no release provided for job ", requiredJob>>),
             release |-> NoRelease]
       ELSE [err |-> NoError, release |-> releasesThatProvideRequiredJob[1]]

findReleaseForJob(requiredJob, releases) ==
    LET releasesThatProvideRequiredJob == releasesThatProvide(requiredJob, releases)
        releaseNames == [i \in DOMAIN releasesThatProvideRequiredJob |->
                            releasesThatProvideRequiredJob[i].Name]
    IN IF Len(releasesThatProvideRequiredJob) = 0
       THEN [err |-> ErrorOf(<<"no release provided for job ", requiredJob>>),
             release |-> NoRelease]
       ELSE IF Len(releasesThatProvideRequiredJob) > 1
       THEN [err |-> ErrorOf(<<"job ", requiredJob, " defined in multiple releases: ">>
                             \o Join(releaseNames, ", ")),
             release |-> NoRelease]
       ELSE [err |-> NoError, release |-> releasesThatProvideRequiredJob[1]]

gatherJobs(releases) ==
    LET found == findReleaseForJob(RedisServerJobName, releases)
    IN IF found.err.isErr
       THEN [err |-> found.err, jobs |-> <<>>]
       ELSE [err |-> NoError,
             jobs |-> <<[Name |-> RedisServerJobName, Release |-> found.release.Name]>>]

redisPlanProperties(manifest) == manifest.InstanceGroups[1].Properties.redis

findOldManifestRedisRelease(redisReleaseName, previousManifestReleases) ==
    LET same == SelectSeq(previousManifestReleases, LAMBDA r : r.Name = redisReleaseName)
    IN IF Len(same) > 0
       THEN [err |-> NoError, release |-> same[1]]
       ELSE [err |-> ErrorOf(<<"no release with name ", redisReleaseName,
                               " found in previous manifest">>),
             release |-> [Name |-> "", Version |-> <<>>]]

\* mutant: only a new version of "latest" is let through unparsed
validUpgradePath_newLatestOnly(previousManifest, serviceReleases) ==
    With(findReleaseForJob(RedisServerJobName, serviceReleases), LAMBDA new :
      IF new.err.isErr THEN new.err
      ELSE
    With(findOldManifestRedisRelease(new.release.Name, previousManifest.Releases), LAMBDA old :
      IF old.err.isErr THEN old.err
      ELSE IF new.release.Version = Latest THEN NoError
      ELSE
    With(parseReleaseVersion(new.release.Version), LAMBDA newVersion :
      IF newVersion.err.isErr THEN newVersion.err
      ELSE
    With(parseReleaseVersion(old.release.Version), LAMBDA oldVersion :
      IF oldVersion.err.isErr THEN oldVersion.err
      ELSE IF oldGreaterThanNew(oldVersion.major, oldVersion.minor, oldVersion.patch,
                                newVersion.major, newVersion.minor, newVersion.patch)
      THEN ErrorOf(<<"error generating manifest: new release version ">>
                   \o new.release.Version
                   \o <<" is lower than existing release version ">>
                   \o old.release.Version)
      ELSE NoError))))

validUpgradePath(previousManifest, serviceReleases) ==
    With(findReleaseForJob(RedisServerJobName, serviceReleases), LAMBDA new :
      IF new.err.isErr THEN new.err
      ELSE
    With(findOldManifestRedisRelease(new.release.Name, previousManifest.Releases), LAMBDA old :
      IF old.err.isErr THEN old.err
      ELSE IF new.release.Version = Latest \/ old.release.Version = Latest THEN NoError
      ELSE
    With(parseReleaseVersion(new.release.Version), LAMBDA newVersion :
      IF newVersion.err.isErr THEN newVersion.err
      ELSE
    With(parseReleaseVersion(old.release.Version), LAMBDA oldVersion :
      IF oldVersion.err.isErr THEN oldVersion.err
      ELSE IF oldGreaterThanNew(oldVersion.major, oldVersion.minor, oldVersion.patch,
                                newVersion.major, newVersion.minor, newVersion.patch)
      THEN ErrorOf(<<"error generating manifest: new release version ">>
                   \o new.release.Version
                   \o <<" is lower than existing release version ">>
                   \o old.release.Version)
      ELSE NoError))))

\* mutant: the missing property is reported to the caller, not logged
persistenceForRedisServer_verbose(planProperties) ==
    IF RedisServerPersistencePropertyKey \notin DOMAIN planProperties
    THEN [err |-> ErrorOf(<<"the plan property '", RedisServerPersistencePropertyKey,
                            "' is missing">>),
          persistence |-> "",
          log |-> <<>>]
    ELSE [err |-> NoError,
          persistence |-> IF planProperties[RedisServerPersistencePropertyKey]
                          THEN "yes" ELSE "no",
          log |-> <<>>]

\* the plan property is a bool; its absence is logged and returned as an
\* error whose message is the empty string
persistenceForRedisServer(planProperties) ==
    IF RedisServerPersistencePropertyKey \notin DOMAIN planProperties
    THEN [err |-> ErrorOf(<<>>),
          persistence |-> "",
          log |-> << <<"the plan property '", RedisServerPersistencePropertyKey,
                       "' is missing">> >>]
    ELSE [err |-> NoError,
          persistence |-> IF planProperties[RedisServerPersistencePropertyKey]
                          THEN "yes" ELSE "no",
          log |-> <<>>]

\* mutant: the password is generated afresh on every call
passwordForRedisServer_regenerates(previousManifestProperties, generated) ==
    [err |-> generated.err, password |-> generated.password, generatorInvoked |-> TRUE]

\* generated is what CurrentPasswordGenerator() returns if this call invokes it
passwordForRedisServer(previousManifestProperties, generated) ==
    IF previousManifestProperties # Nil
    THEN [err |-> NoError, password |-> previousManifestProperties[1].password,
          generatorInvoked |-> FALSE]
    ELSE [err |-> generated.err, password |-> generated.password,
          generatorInvoked |-> TRUE]

\* int(f) of a float64 held in tenths: truncation toward zero
IntOfFloat64(tenths) ==
    IF tenths >= 0 THEN tenths \div 10 ELSE -((-tenths) \div 10)

\* mutant: the previous manifest's value wins over the request parameter
maxClientsForRedisServer_previousFirst(arbitraryParams, previousManifestProperties) ==
    IF previousManifestProperties # Nil
    THEN previousManifestProperties[1].maxclients
    ELSE IF "maxclients" \in DOMAIN arbitraryParams
    THEN IntOfFloat64(arbitraryParams["maxclients"])
    ELSE DefaultMaxClients

maxClientsForRedisServer(arbitraryParams, previousManifestProperties) ==
    IF "maxclients" \in DOMAIN arbitraryParams
    THEN IntOfFloat64(arbitraryParams["maxclients"])
    ELSE IF previousManifestProperties # Nil
    THEN previousManifestProperties[1].maxclients
    ELSE DefaultMaxClients

redisServerProperties(planProperties, arbitraryParams, previousManifest, generated) ==
    With(IF previousManifest # Nil THEN <<redisPlanProperties(previousManifest[1])>> ELSE Nil,
         LAMBDA previousRedisProperties :
    With(persistenceForRedisServer(planProperties), LAMBDA persistence :
      IF persistence.err.isErr
      THEN [err |-> persistence.err, log |-> persistence.log, generatorInvoked |-> FALSE,
            properties |-> Nil]
      ELSE
    With(passwordForRedisServer(previousRedisProperties, generated), LAMBDA password :
      IF password.err.isErr
      THEN [err |-> password.err, log |-> <<>>, generatorInvoked |-> password.generatorInvoked,
            properties |-> Nil]
      ELSE
    With(maxClientsForRedisServer(arbitraryParams, previousRedisProperties), LAMBDA maxClients :
      [err |-> NoError,
       log |-> <<>>, generatorInvoked |-> password.generatorInvoked,
       properties |-> <<[redis |-> [persistence |-> persistence.persistence,
                                    password |-> password.password,
                                    maxclients |-> maxClients]]>>]))))

\* What a call returns and does: the manifest and error returned, the lines
\* written to StderrLogger, whether the password generator was invoked, and
\* how far upgrade-path validation got ("skipped", "passed" or "failed").
Failed(e, lines, invoked, upgrade) ==
    [err |-> e, manifest |-> EmptyManifest, log |-> lines,
     generatorInvoked |-> invoked, upgrade |-> upgrade]

\* The body of GenerateManifest.  order is the order in which the range over
\* the parameter map visits its keys; generated is the password generator's
\* outcome, used only if the call reaches the generator.
GenerateManifestBody(serviceDeployment, plan, arbitraryParameters, previousManifest, order, generated) ==
    LET checked == IF previousManifest # Nil THEN "passed" ELSE "skipped"
    IN
    With(findIllegalArbitraryParams(arbitraryParameters, order), LAMBDA illegalArbParams :
      IF Len(illegalArbParams) # 0
      THEN Failed(ErrorOf(<<"unsupported parameter(s) for this service plan: ">>
                          \o Join(illegalArbParams, ", ")),
                  <<>>, FALSE, "skipped")
      ELSE
    With(IF previousManifest # Nil
         THEN validUpgradePath(previousManifest[1], serviceDeployment.Releases)
         ELSE NoError, LAMBDA upgradeErr :
      IF upgradeErr.isErr THEN Failed(upgradeErr, <<>>, FALSE, "failed")
      ELSE
    With(findRedisServerInstanceGroup(plan), LAMBDA redisServerInstanceGroup :
      IF redisServerInstanceGroup = Nil
      THEN Failed(ErrorOf(<<"Contact your operator, service configuration issue occurred">>),
                  << <<"no ", RedisServerJobName, " instance group definition found">> >>,
                  FALSE, checked)
      ELSE
    With(redisServerProperties(plan.Properties, arbitraryParameters, previousManifest,
                               generated), LAMBDA redis :
      IF redis.err.isErr
      THEN Failed(redis.err, redis.log, redis.generatorInvoked, checked)
      ELSE
    With([i \in DOMAIN serviceDeployment.Releases |->
             [Name |-> serviceDeployment.Releases[i].Name,
              Version |-> serviceDeployment.Releases[i].Version]], LAMBDA releases :
    With(gatherJobs(serviceDeployment.Releases), LAMBDA gathered :
      IF gathered.err.isErr
      THEN Failed(gathered.err, <<>>, redis.generatorInvoked, checked)
      ELSE [err |-> NoError,
            manifest |->
               [Name |-> serviceDeployment.DeploymentName,
                Releases |-> releases,
                Stemcells |-> <<[Version |-> serviceDeployment.Stemcell.Version,
                                 Alias |-> "only-stemcell",
                                 OS |-> serviceDeployment.Stemcell.OS]>>,
                InstanceGroups |->
                   <<[Name |-> RedisServerJobName,
                      Properties |-> redis.properties[1],
                      Jobs |-> gathered.jobs,
                      Stemcell |-> "only-stemcell",
                      Instances |-> redisServerInstanceGroup[1].Instances,
                      VMType |-> redisServerInstanceGroup[1].VMType,
                      VMExtensions |-> redisServerInstanceGroup[1].VMExtensions,
                      PersistentDiskType |-> redisServerInstanceGroup[1].PersistentDiskType,
                      Networks |-> [i \in DOMAIN redisServerInstanceGroup[1].Networks |->
                                       [Name |-> redisServerInstanceGroup[1].Networks[i]]],
                      AZs |-> redisServerInstanceGroup[1].AZs]>>,
                Update |-> generateUpdateBlock(plan.Update),
                Properties |-> <<>>],
            log |-> <<>>,
            generatorInvoked |-> redis.generatorInvoked,
            upgrade |-> checked]))))))

\* randomPasswordGenerator: 20 random bytes in base64, or the entropy
\* source's error
Passwords == {"cGFzc3dvcmQtb25lLTAwMDAwMDA=", "cGFzc3dvcmQtdHdvLTAwMDAwMDA="}
randomPasswordGenerator ==
    {[err |-> NoError, password |-> p] : p \in Passwords}
    \cup {[err |-> ErrorOf(<<"rand.Read failed">>), password |-> ""]}

\* the version of the release that the manifest's redis-server job names
RedisReleaseOf(manifest) ==
    LET name == manifest.InstanceGroups[1].Jobs[1].Release
    IN SelectSeq(manifest.Releases, LAMBDA r : r.Name = name)[1]

\* history: version v belongs in highest, being of the grammar and above the
\* version recorded in h (<<>> or <<version>>)
Higher(v, h) ==
    /\ v \in GrammarVersions
    /\ h # Nil => LexLower(h[1], v)

NoCall ==
    [order |-> <<>>,
     plan |-> [InstanceGroups |-> <<>>, Update |-> Nil, Properties |-> <<>>],
     previousManifest |-> Nil,
     generated |-> Nil,
     serviceDeployment |-> [Releases |-> <<>>, DeploymentName |-> "",
                            Stemcell |-> [Version |-> "", OS |-> ""]],
     arbitraryParameters |-> <<>>,
     made |-> FALSE,
     first |-> FALSE,
     result |-> Failed(NoError, <<>>, FALSE, "skipped")]

\* One GenerateManifest call of the broker for the deployment: the broker
\* passes the manifest it holds as previousManifest and keeps the manifest
\* of a successful call.
GenerateManifest(serviceDeployment, plan, arbitraryParameters) ==
    /\ deployed = Nil => generatorCalls < MaxGeneratorCalls
    /\ \E order \in MapOrders(arbitraryParameters), generated \in randomPasswordGenerator :
       \E result \in {GenerateManifestBody(serviceDeployment, plan, arbitraryParameters,
                                           deployed, order, generated)} :
       \E redisRelease \in {IF result.err.isErr THEN NoRelease
                            ELSE RedisReleaseOf(result.manifest)} :
         /\ call' = [order |-> order,
                     plan |-> plan,
                     previousManifest |-> deployed,
                     generated |-> IF result.generatorInvoked THEN <<generated>> ELSE Nil,
                     serviceDeployment |-> serviceDeployment,
                     arbitraryParameters |-> arbitraryParameters,
                     made |-> TRUE,
                     first |-> ~call.made,
                     result |-> result]
         /\ deployed' = IF result.err.isErr THEN deployed ELSE <<result.manifest>>
         /\ generatorCalls' = generatorCalls + (IF result.generatorInvoked THEN 1 ELSE 0)
         /\ createPassword' =
                 IF ~result.err.isErr /\ createPassword = Nil
                 THEN <<redisPlanProperties(result.manifest).password>>
                 ELSE createPassword
         /\ highest' =
                 IF ~result.err.isErr /\ Higher(redisRelease.Version, highest)
                 THEN <<redisRelease.Version>>
                 ELSE highest
    /\ UNCHANGED bind

-----------------------------------------------------------------------------
(* Binder *)

\* deploymentTopology[group]: the addresses of the group, the nil slice when
\* the map has no such key
AddressesOf(deploymentTopology, group) ==
    IF group \in DOMAIN deploymentTopology THEN deploymentTopology[group] ELSE <<>>

\* mutant: the number of instance groups is not checked
getRedisHost_anyGroups(deploymentTopology) ==
    LET redisServerIPs == AddressesOf(deploymentTopology, "redis-server")
    IN IF Len(redisServerIPs) # 1
       THEN [err |-> ErrorOf(<<"expected redis-server instance group to have only 1 instance, got ">>
                             \o Itoa(Len(redisServerIPs))),
             host |-> <<>>]
       ELSE [err |-> NoError, host |-> redisServerIPs[1]]

getRedisHost(deploymentTopology) ==
    LET groups == Cardinality(DOMAIN deploymentTopology)
        redisServerIPs == AddressesOf(deploymentTopology, "redis-server")
    IN IF groups # 1
       THEN [err |-> ErrorOf(<<"expected 1 instance group in the Redis deployment, got ">>
                             \o Itoa(groups)),
             host |-> <<>>]
       ELSE IF Len(redisServerIPs) # 1
       THEN [err |-> ErrorOf(<<"expected redis-server instance group to have only 1 instance, got ">>
                             \o Itoa(Len(redisServerIPs))),
             host |-> <<>>]
       ELSE [err |-> NoError, host |-> redisServerIPs[1]]

\* regexp ^\(\(([^()]+)\)\)$ under FindAllStringSubmatch(s, -1): the list of
\* matches, each <<whole, group 1>>
credhubRefRegexp(s) ==
    IF /\ Len(s) >= 5
       /\ SubSeq(s, 1, 2) = <<"(", "(">>
       /\ SubSeq(s, Len(s) - 1, Len(s)) = <<")", ")">>
       /\ \A i \in 3..(Len(s) - 2) : s[i] \notin {"(", ")"}
    THEN << <<s, SubSeq(s, 3, Len(s) - 2)>> >>
    ELSE <<>>

\* secrets[key] with the comma-ok form; secrets is nil or <<the map>>
SecretLookup(secrets, key) ==
    IF secrets # Nil /\ key \in DOMAIN secrets[1]
    THEN [value |-> secrets[1][key], ok |-> TRUE]
    ELSE [value |-> "", ok |-> FALSE]

SecretPassKey == <<"s", "e", "c", "r", "e", "t", "_", "p", "a", "s", "s">>

\* serviceadapter.Binding{}
EmptyBinding == [Credentials |-> Nil]

BindFailed(e, lines) == [err |-> e, log |-> lines, binding |-> EmptyBinding]

\* A property value of the manifest is an interface value: its dynamic type
\* and its value.
StringValue(text) == [value |-> text, type |-> "string"]
IntValue(n) == [value |-> <<n>>, type |-> "int"]

\* mutant: the bundle is searched for the whole reference, parentheses included
secretFromManifest_wholeMatch(properties, secrets) ==
    IF "secret" \notin DOMAIN properties
    THEN [err |-> NoError, secret |-> ""]
    ELSE IF properties["secret"].type # "string"
    THEN [err |-> ErrorOf(<<"secret in manifest was not a string. expecting a credhub ref string">>),
          secret |-> ""]
    ELSE
    With(properties["secret"].value, LAMBDA pathWithParens :
    With(credhubRefRegexp(pathWithParens), LAMBDA match :
      IF Len(match) # 1 \/ Len(match[1]) # 2
      THEN [err |-> ErrorOf(<<"expecting a credhub ref string with format ((xxx)), but got: ">>
                            \o pathWithParens),
            secret |-> ""]
      ELSE
    With(SecretLookup(secrets, match[1][1]), LAMBDA found :
      IF ~found.ok
      THEN [err |-> ErrorOf(<<"secret '">> \o match[1][1]
                            \o <<"' not present in manifest secrets passed to bind">>),
            secret |-> ""]
      ELSE [err |-> NoError, secret |-> found.value])))

\* the lines 39-61 of CreateBinding: the secret named by the manifest
secretFromManifest(properties, secrets) ==
    IF "secret" \notin DOMAIN properties
    THEN [err |-> NoError, secret |-> ""]
    ELSE IF properties["secret"].type # "string"
    THEN [err |-> ErrorOf(<<"secret in manifest was not a string. expecting a credhub ref string">>),
          secret |-> ""]
    ELSE
    With(properties["secret"].value, LAMBDA pathWithParens :
    With(credhubRefRegexp(pathWithParens), LAMBDA match :
      IF Len(match) # 1 \/ Len(match[1]) # 2
      THEN [err |-> ErrorOf(<<"expecting a credhub ref string with format ((xxx)), but got: ">>
                            \o pathWithParens),
            secret |-> ""]
      ELSE
    With(SecretLookup(secrets, match[1][2]), LAMBDA found :
      IF ~found.ok
      THEN [err |-> ErrorOf(<<"secret '">> \o match[1][2]
                            \o <<"' not present in manifest secrets passed to bind">>),
            secret |-> ""]
      ELSE [err |-> NoError, secret |-> found.value])))

CreateBindingBody(deploymentTopology, manifest, requestParams, secrets) ==
    LET platformLog ==
            IF \/ Cardinality(DOMAIN requestParams.ArbitraryContext) = 0
               \/ requestParams.Platform = ""
               \/ requestParams.Platform # "cloudfoundry"
            THEN << <<"Non Cloud Foundry platform (or pre OSBAPI 2.13) detected">> >>
            ELSE <<>>
        interpolationErr ==
            \* (the message quotes the key in backquotes, left out here)
            ErrorOf(<<"manifest wasn't correctly interpolated: missing value for secret_pass">>)
    IN
    With(getRedisHost(deploymentTopology), LAMBDA redis :
      IF redis.err.isErr
      THEN BindFailed(ErrorOf(<<>>), Append(platformLog, redis.err.msg))
      ELSE
    With(SecretLookup(secrets, SecretPassKey), LAMBDA generatedSecret :
      IF secrets # Nil /\ ~generatedSecret.ok
      THEN BindFailed(interpolationErr, Append(platformLog, interpolationErr.msg))
      ELSE
    With(secretFromManifest(redisPlanProperties(manifest), secrets), LAMBDA fromConfigStore :
      IF fromConfigStore.err.isErr
      THEN BindFailed(fromConfigStore.err, Append(platformLog, fromConfigStore.err.msg))
      ELSE [err |-> NoError,
            log |-> platformLog,
            binding |->
               [Credentials |->
                   <<[password |-> redisPlanProperties(manifest)["password"].value,
                      host |-> redis.host,
                      secret |-> fromConfigStore.secret,
                      port |-> RedisServerPort,
                      generated_secret |-> generatedSecret.value]>>]])))

CreateBinding(deploymentTopology, manifest, requestParams, secrets) ==
    /\ bind' = [manifest |-> manifest,
                result |-> CreateBindingBody(deploymentTopology, manifest,
                                             requestParams, secrets),
                deploymentTopology |-> deploymentTopology,
                secrets |-> secrets,
                requestParams |-> requestParams,
                op |-> "CreateBinding"]
    /\ UNCHANGED <<deployed, call, generatorCalls, createPassword, highest>>

DeleteBinding(deploymentTopology, manifest, requestParams) ==
    /\ bind' = [manifest |-> manifest,
                result |-> BindFailed(NoError, <<>>),
                deploymentTopology |-> deploymentTopology,
                secrets |-> Nil,
                requestParams |-> requestParams,
                op |-> "DeleteBinding"]
    /\ UNCHANGED <<deployed, call, generatorCalls, createPassword, highest>>

-----------------------------------------------------------------------------
(* Inputs of the generator *)

Release(name, version, jobs) == [Name |-> name, Jobs |-> jobs, Version |-> version]

InstanceGroup(name) ==
    [Name |-> name, Instances |-> 1, VMType |-> "small", VMExtensions |-> <<>>,
     PersistentDiskType |-> "ten-gigabytes", Networks |-> <<"default">>,
     AZs |-> <<"z1">>]

RedisGroup == InstanceGroup(RedisServerJobName)
OtherGroup == InstanceGroup("sidecar")

\* an update block of a plan
PlanUpdate ==
    [Canaries |-> 2, MaxInFlight |-> 1, CanaryWatchTime |-> "1000-30000",
     UpdateWatchTime |-> "1000-30000", Serial |-> <<TRUE>>]

Persistence(b) == [k \in {RedisServerPersistencePropertyKey} |-> b]

Plans ==
    {[InstanceGroups |-> <<OtherGroup, RedisGroup>>, Update |-> <<PlanUpdate>>,
      Properties |-> Persistence(TRUE)],
     [InstanceGroups |-> <<RedisGroup>>, Update |-> Nil, Properties |-> Persistence(FALSE)],
     [InstanceGroups |-> <<RedisGroup>>, Update |-> Nil, Properties |-> <<>>],
     [InstanceGroups |-> <<OtherGroup>>, Update |-> Nil, Properties |-> Persistence(TRUE)],
     [InstanceGroups |-> <<>>, Update |-> Nil, Properties |-> <<>>]}

ValidPlan ==
    [InstanceGroups |-> <<RedisGroup>>, Update |-> Nil, Properties |-> Persistence(TRUE)]

\* a plan without instance groups
EmptyPlan ==
    [InstanceGroups |-> <<>>, Update |-> Nil, Properties |-> Persistence(TRUE)]

\* request parameters as decoded from JSON: every number is a float64, held
\* here in tenths (207 is 20.7)
NoParams == <<>>
ParamMaps ==
    {NoParams}
    \cup {[k \in {"maxclients"} |-> v] : v \in {207, -15}}
    \cup {[k \in {"foo", "bar"} |-> 10],
          [k \in {"foo", "maxclients"} |-> 10]}

BasicReleaseLists ==
    {<<>>,
     <<Release("redis", V2_5, <<RedisServerJobName>>)>>,
     <<Release("redis", V2_5, <<RedisServerJobName, RedisServerJobName>>)>>,
     <<Release("tools", V2_4, <<"backup">>), Release("redis", V2_5, <<"backup", RedisServerJobName>>)>>,
     <<Release("redis", V2_5, <<RedisServerJobName>>), Release("tools", V2_4, <<RedisServerJobName>>)>>}

\* release lists that vary the versions: redis alone, redis listing the job
\* twice, or redis with a second release, either of which may provide the job
VersionedReleaseLists ==
    {<<Release("redis", v, <<RedisServerJobName>>)>> : v \in Versions}
    \cup {<<Release("redis", V2_5, <<RedisServerJobName, RedisServerJobName>>)>>}
    \cup {<<Release("redis", v, j), Release("tools", V2_4, k)>> :
            v \in {Latest, V2_5},
            j \in {<<>>, <<RedisServerJobName>>},
            k \in {<<>>, <<RedisServerJobName>>}}

Deployment(releases) ==
    [Releases |-> releases, DeploymentName |-> "service-instance",
     Stemcell |-> [Version |-> "1.200", OS |-> "ubuntu-jammy"]]

-----------------------------------------------------------------------------
(* Inputs of the binder *)

\* the address of the i-th instance
Address(i) == <<"10.0.0.">> \o Itoa(i)
Instances(n) == [i \in 1..n |-> Address(i)]

\* topologies over the groups redis-server and sidecar, each with up to
\* MaxInstances addresses
Topologies ==
    UNION {[groups -> {Instances(n) : n \in 0..MaxInstances}] :
              groups \in SUBSET {"redis-server", "sidecar"}}

OneRedisServer == [g \in {"redis-server"} |-> Instances(1)]

CredhubRef(name) == <<"(", "(">> \o name \o <<")", ")">>
MyPath == <<"m", "y", "/", "p", "a", "t", "h">>
OtherPath == <<"o", "t", "h", "e", "r">>

\* values of the manifest's secret property
SecretProperties ==
    {IntValue(42)}
    \cup {StringValue(t) :
            t \in {CredhubRef(MyPath), CredhubRef(OtherPath), CredhubRef(<<>>),
                   MyPath, <<"(">> \o MyPath \o <<")">>,
                   <<"(">> \o CredhubRef(MyPath), CredhubRef(MyPath) \o <<"x">>,
                   CredhubRef(<<"m", "(", "y">>)}}

\* a deployed manifest, as interpolated by the operator: the redis properties
\* with or without a secret
BoundManifest(properties) ==
    [Name |-> "service-instance",
     Releases |-> <<[Name |-> "redis", Version |-> V2_5]>>,
     Stemcells |-> <<[Version |-> "1.200", Alias |-> "only-stemcell", OS |-> "ubuntu-jammy"]>>,
     InstanceGroups |->
        <<[Name |-> RedisServerJobName,
           Properties |-> [redis |-> properties],
           Jobs |-> <<[Name |-> RedisServerJobName, Release |-> "redis"]>>,
           Stemcell |-> "only-stemcell",
           Instances |-> 1,
           VMType |-> "small",
           VMExtensions |-> <<>>,
           PersistentDiskType |-> "ten-gigabytes",
           Networks |-> <<[Name |-> "default"]>>,
           AZs |-> <<"z1">>]>>,
     Update |-> generateUpdateBlock(Nil),
     Properties |-> <<>>]

PlainProperties ==
    [k \in {"persistence", "password", "maxclients"} |->
        CASE k = "persistence" -> StringValue(<<"yes">>)
          [] k = "password" -> StringValue(<<"cGFzc3dvcmQtb25lLTAwMDAwMDA=">>)
          [] k = "maxclients" -> IntValue(DefaultMaxClients)]

WithSecret(value) ==
    [k \in DOMAIN PlainProperties \cup {"secret"} |->
        IF k = "secret" THEN value ELSE PlainProperties[k]]

\* secrets bundles: nil, or a map holding secret_pass and my/path or neither
SecretBundles ==
    {Nil}
    \cup {<<[k \in keys |-> IF k = SecretPassKey THEN "generated" ELSE "xyz"]>> :
            keys \in SUBSET {SecretPassKey, MyPath}}

CloudFoundry == [ArbitraryContext |-> [k \in {"platform"} |-> "cloudfoundry"],
                 Platform |-> "cloudfoundry"]
Kubernetes == [ArbitraryContext |-> [k \in {"platform"} |-> "kubernetes"],
               Platform |-> "kubernetes"]
NoContext == [ArbitraryContext |-> <<>>, Platform |-> ""]

\* every topology with a few manifests and bundles, and every secret
\* property and bundle with the one-instance topology
BindInputs ==
    {[manifest |-> BoundManifest(m), secrets |-> b, requestParams |-> r, topology |-> t] :
        t \in Topologies,
        m \in {PlainProperties, WithSecret(StringValue(CredhubRef(MyPath)))},
        r \in {CloudFoundry, NoContext},
        b \in {Nil, <<[k \in {SecretPassKey, MyPath} |->
                         IF k = SecretPassKey THEN "generated" ELSE "xyz"]>>}}
    \cup
    {[manifest |-> BoundManifest(m), secrets |-> b, requestParams |-> r,
      topology |-> OneRedisServer] :
        m \in {PlainProperties} \cup {WithSecret(v) : v \in SecretProperties},
        r \in {CloudFoundry, Kubernetes},
        b \in SecretBundles}

NoBind ==
    [manifest |-> EmptyManifest, result |-> BindFailed(NoError, <<>>), deploymentTopology |-> <<>>,
     secrets |-> Nil, requestParams |-> NoContext, op |-> ""]

-----------------------------------------------------------------------------
(* Specifications *)

Init ==
    /\ deployed = Nil
    /\ call = NoCall
    /\ generatorCalls = 0
    /\ createPassword = Nil
    /\ highest = Nil
    /\ bind = NoBind

\* the generator under varying plans and request parameters
Next ==
    \E releases \in {<<>>, <<Release("redis", V2_5, <<RedisServerJobName>>)>>},
       plan \in Plans, params \in ParamMaps :
        GenerateManifest(Deployment(releases), plan, params)

Spec == Init /\ [][Next]_vars

\* the generator under varying release lists
NextReleases ==
    \E releases \in BasicReleaseLists,
       plan \in {ValidPlan, EmptyPlan},
       params \in {NoParams, [k \in {"foo"} |-> 10]} :
        GenerateManifest(Deployment(releases), plan, params)

SpecReleases == Init /\ [][NextReleases]_vars

\* the generator under varying release versions
NextUpgrade ==
    \E releases \in VersionedReleaseLists :
        GenerateManifest(Deployment(releases), ValidPlan, NoParams)

SpecUpgrade == Init /\ [][NextUpgrade]_vars

\* the binder
NextBind ==
    \/ \E in \in BindInputs :
          CreateBinding(in.topology, in.manifest, in.requestParams, in.secrets)
    \/ \E in \in BindInputs :
          DeleteBinding(in.topology, in.manifest, in.requestParams)

SpecBind == Init /\ [][NextBind]_vars

-----------------------------------------------------------------------------
(* Properties of the generator under Spec *)

PasswordOf(manifest) == redisPlanProperties(manifest).password
MaxClientsOf(manifest) == redisPlanProperties(manifest).maxclients
Succeeded == call.made /\ ~call.result.err.isErr
IsUpdate == call.previousManifest # Nil
IllegalKeys(params) == DOMAIN params \ {"maxclients"}

\* C1 as stated: the password generator is invoked only by the first call,
\* the create call, and the deployment's manifest always carries the password
\* of the create manifest.
C1_GeneratorOnlyInFirstCall ==
    /\ call.made /\ call.result.generatorInvoked => call.first
    /\ deployed # Nil => PasswordOf(deployed[1]) = createPassword[1]

\* C1 amended: the password generator is invoked only by calls that have no
\* previous manifest; a call with a previous manifest never invokes it and, if
\* it succeeds, returns the previous manifest's password, so that the
\* deployment's manifest always carries the password of the create manifest,
\* whatever the plan and the request parameters of the later calls are.
C1_PasswordCarriedForward ==
    /\ call.made /\ call.result.generatorInvoked => ~IsUpdate
    /\ Succeeded /\ IsUpdate =>
          PasswordOf(call.result.manifest) = PasswordOf(call.previousManifest[1])
    /\ Succeeded /\ ~IsUpdate =>
          /\ call.result.generatorInvoked
          /\ PasswordOf(call.result.manifest) \in Passwords
    /\ deployed # Nil => PasswordOf(deployed[1]) = createPassword[1]

\* an update with a request parameter succeeded, after a create call that
\* failed and a second create call: the generator ran twice, and the update
\* kept the password
C1_Witness ==
    /\ Succeeded /\ IsUpdate
    /\ "maxclients" \in DOMAIN call.arbitraryParameters
    /\ generatorCalls = 2
    /\ PasswordOf(deployed[1]) = createPassword[1]

UnsupportedPrefix == "unsupported parameter(s) for this service plan: "

\* a call with illegal keys fails before any other check, with a message
\* that names the disallowed keys and only them
RejectsIllegalKeys ==
    call.made /\ IllegalKeys(call.arbitraryParameters) # {} =>
        /\ call.result.err.isErr
        /\ call.result.err.msg[1] = UnsupportedPrefix
        /\ call.result.upgrade = "skipped"
        /\ ~call.result.generatorInvoked
        /\ call.result.log = <<>>
        /\ \A k \in DOMAIN call.arbitraryParameters :
              Mentions(Tail(call.result.err.msg), <<k>>) <=> k # "maxclients"

\* C4: a call whose parameters hold a key other than maxclients fails before
\* any other check with an "unsupported parameter" error naming exactly the
\* disallowed keys, and two calls with the same parameter map produce the
\* same message.
C4_StableUnsupportedMessage ==
    /\ []RejectsIllegalKeys
    /\ [][(/\ call.made
           /\ IllegalKeys(call.arbitraryParameters) # {}
           /\ call'.arbitraryParameters = call.arbitraryParameters)
          => call'.result.err.msg = call.result.err.msg]_vars

\* n is the integer value of the float64 held in tenths: its integral part
IsIntegerValue(n, tenths) ==
    IF tenths >= 0
    THEN 10 * n <= tenths /\ tenths < 10 * (n + 1)
    ELSE 10 * (n - 1) < tenths /\ tenths <= 10 * n

\* C5: in a successful call, redis.maxclients is the integer value of the
\* maxclients parameter when the caller supplied it, else the previous
\* manifest's value when there is a previous manifest, else 10000; so a value
\* set by an earlier call persists over updates that supply no parameter.
C5_MaxClientsPrecedence ==
    Succeeded =>
        IF "maxclients" \in DOMAIN call.arbitraryParameters
        THEN IsIntegerValue(MaxClientsOf(call.result.manifest),
                            call.arbitraryParameters["maxclients"])
        ELSE IF IsUpdate
        THEN MaxClientsOf(call.result.manifest) = MaxClientsOf(call.previousManifest[1])
        ELSE MaxClientsOf(call.result.manifest) = 10000

\* an update without parameters kept the value 20 that an earlier call set
\* from the parameter 20.7
C5_Witness ==
    /\ Succeeded /\ IsUpdate
    /\ call.arbitraryParameters = NoParams
    /\ MaxClientsOf(call.previousManifest[1]) = 20
    /\ MaxClientsOf(deployed[1]) = 20

OperatorContact == <<"Contact your operator, service configuration issue occurred">>

\* the call got as far as looking at the plan
ReachedPlan ==
    /\ call.made
    /\ IllegalKeys(call.arbitraryParameters) = {}
    /\ call.result.upgrade # "failed"

MissingInstanceGroup ==
    /\ ReachedPlan
    /\ \A i \in DOMAIN call.plan.InstanceGroups :
          call.plan.InstanceGroups[i].Name # "redis-server"

MissingPersistence ==
    /\ ReachedPlan
    /\ ~MissingInstanceGroup
    /\ "persistence" \notin DOMAIN call.plan.Properties

\* one line was logged and it names what is missing
LoggedDetail(what) ==
    /\ Len(call.result.log) = 1
    /\ Mentions(call.result.log[1], <<what>>)

NamesNothing(msg) ==
    /\ ~Mentions(msg, <<"redis-server">>)
    /\ ~Mentions(msg, <<"persistence">>)

\* C7 as stated: a plan without the redis-server instance group and a plan
\* without the persistence property both log a detailed line and return the
\* same generic operator-contact message, which names neither.
C7_SameOperatorMessage ==
    /\ MissingInstanceGroup =>
          /\ LoggedDetail("redis-server")
          /\ call.result.err = ErrorOf(OperatorContact)
    /\ MissingPersistence =>
          /\ LoggedDetail("persistence")
          /\ call.result.err = ErrorOf(OperatorContact)
    /\ NamesNothing(OperatorContact)

\* C7 amended: both configuration errors log a detailed line and return an
\* error that names neither the instance group nor the property; the missing
\* instance group returns the operator-contact message, the missing
\* persistence property an error whose message is empty.
C7_GenericConfigurationErrors ==
    /\ MissingInstanceGroup =>
          /\ LoggedDetail("redis-server")
          /\ call.result.err = ErrorOf(OperatorContact)
    /\ MissingPersistence =>
          /\ LoggedDetail("persistence")
          /\ call.result.err = ErrorOf(<<>>)
    /\ call.made /\ (MissingInstanceGroup \/ MissingPersistence) =>
          /\ NamesNothing(call.result.err.msg)
          /\ call.result.manifest = EmptyManifest
          /\ ~call.result.generatorInvoked

\* an update whose plan lacks the persistence property was refused
C7_Witness ==
    /\ MissingPersistence
    /\ IsUpdate
    /\ call.result.err.isErr

-----------------------------------------------------------------------------
(* Properties of the generator under SpecReleases *)

HasInstanceGroup ==
    \E i \in DOMAIN call.plan.InstanceGroups :
        call.plan.InstanceGroups[i].Name = "redis-server"

HasPersistence == "persistence" \in DOMAIN call.plan.Properties

GeneratorFailed == call.generated # Nil /\ call.generated[1].err.isErr

\* the releases of the call's list (by position) that provide redis-server
Providers ==
    {i \in DOMAIN call.serviceDeployment.Releases :
        \E j \in DOMAIN call.serviceDeployment.Releases[i].Jobs :
            call.serviceDeployment.Releases[i].Jobs[j] = "redis-server"}

ProviderNames == {call.serviceDeployment.Releases[i].Name : i \in Providers}

NamesTheJob(msg) == Mentions(msg, <<"redis-server">>)

\* the job list of the manifest is one redis-server job bound to a provider
OneJobOfProvider ==
    LET jobs == call.result.manifest.InstanceGroups[1].Jobs
    IN /\ Len(jobs) = 1
       /\ jobs[1].Name = "redis-server"
       /\ ProviderNames = {jobs[1].Release}

\* C6 as stated: a call succeeds only with exactly one release providing
\* redis-server; with none it fails with an error naming the job, with two
\* or more with an error naming the job and every providing release; a
\* successful manifest holds the one job redis-server of that release.
C6_ExactlyOneProvider ==
    call.made =>
        /\ Succeeded => Cardinality(Providers) = 1 /\ OneJobOfProvider
        /\ Cardinality(Providers) = 0 =>
              /\ call.result.err.isErr
              /\ NamesTheJob(call.result.err.msg)
        /\ Cardinality(Providers) >= 2 =>
              /\ call.result.err.isErr
              /\ NamesTheJob(call.result.err.msg)
              /\ \A n \in ProviderNames : Mentions(call.result.err.msg, <<n>>)

\* a check that GenerateManifest makes before it looks at the releases
\* rejects the call: an illegal parameter; in a call without a previous
\* manifest also a plan without the instance group or the persistence
\* property, or a failed password generator
EarlierCheckFails ==
    \/ IllegalKeys(call.arbitraryParameters) # {}
    \/ ~IsUpdate /\ (~HasInstanceGroup \/ ~HasPersistence \/ GeneratorFailed)

\* C6 amended: as C6, for the calls that no earlier check rejects; a call
\* that an earlier check rejects fails with that check's error, which does
\* not name the job.
C6_ProviderErrorsUnlessRejectedEarlier ==
    call.made =>
        /\ Succeeded => Cardinality(Providers) = 1 /\ OneJobOfProvider
        /\ ~EarlierCheckFails /\ Cardinality(Providers) = 0 =>
              call.result.err = ErrorOf(<<"no release provided for job ", "redis-server">>)
        /\ ~EarlierCheckFails /\ Cardinality(Providers) >= 2 =>
              /\ call.result.err.isErr
              /\ SubSeq(call.result.err.msg, 1, 3)
                    = <<"job ", "redis-server", " defined in multiple releases: ">>
              /\ \A n \in ProviderNames :
                    Mentions(SubSeq(call.result.err.msg, 4, Len(call.result.err.msg)), <<n>>)
        /\ EarlierCheckFails =>
              /\ call.result.err.isErr
              /\ ~NamesTheJob(call.result.err.msg)

\* an update whose release list has two providers was refused with an error
\* listing both
C6_Witness ==
    /\ IsUpdate
    /\ Cardinality(Providers) = 2
    /\ call.result.err = ErrorOf(<<"job ", "redis-server", " defined in multiple releases: ",
                                   "redis", ", ", "tools">>)

-----------------------------------------------------------------------------
(* Properties of the generator under SpecUpgrade *)

\* the release of the call's list that provides redis-server, when there is
\* exactly one
NewRelease == call.serviceDeployment.Releases[CHOOSE i \in Providers : TRUE]

\* the releases of the previous manifest (by position) named as NewRelease
SameNamed ==
    {j \in DOMAIN call.previousManifest[1].Releases :
        call.previousManifest[1].Releases[j].Name = NewRelease.Name}

OldRelease ==
    call.previousManifest[1].Releases[CHOOSE j \in SameNamed : \A k \in SameNamed : j <= k]

\* an update with legal parameters, a complete plan, exactly one release
\* providing redis-server and a release of that name in the previous manifest
OtherwiseValidUpdate ==
    /\ call.made /\ IsUpdate
    /\ IllegalKeys(call.arbitraryParameters) = {}
    /\ HasInstanceGroup /\ HasPersistence
    /\ Cardinality(Providers) = 1
    /\ SameNamed # {}

\* C2 as stated: in an otherwise valid update whose old and new versions match
\* the grammar, generation fails if and only if the new triple is
\* lexicographically lower than the old one.
C2_FailsIffLower ==
    OtherwiseValidUpdate
    /\ NewRelease.Version \in GrammarVersions
    /\ OldRelease.Version \in GrammarVersions
    => (call.result.err.isErr <=> LexLower(NewRelease.Version, OldRelease.Version))

\* every component of the version is at most the largest Go int
FitsInt(v) ==
    \A i \in 1..3 :
        \/ NumLess(Components(v)[i], MaxIntDigits)
        \/ Components(v)[i] = MaxIntDigits

\* the provider lists the job once
ListsJobOnce ==
    Cardinality({j \in DOMAIN NewRelease.Jobs : NewRelease.Jobs[j] = "redis-server"}) = 1

\* C2 amended: in an otherwise valid update whose one providing release lists
\* the job once and whose old and new versions match the grammar with every
\* component fitting an int, generation fails if and only if the new triple
\* is lexicographically lower than the old one, and the error names both
\* versions; with a component that does not fit an int generation fails.
C2_FailsIffLowerWithinInt ==
    OtherwiseValidUpdate
    /\ ListsJobOnce
    /\ NewRelease.Version \in GrammarVersions
    /\ OldRelease.Version \in GrammarVersions
    => IF FitsInt(NewRelease.Version) /\ FitsInt(OldRelease.Version)
       THEN /\ call.result.err.isErr <=> LexLower(NewRelease.Version, OldRelease.Version)
            /\ call.result.err.isErr =>
                  call.result.err.msg =
                      <<"error generating manifest: new release version ">>
                      \o NewRelease.Version
                      \o <<" is lower than existing release version ">>
                      \o OldRelease.Version
       ELSE call.result.err.isErr

\* the update from 2.5 to 2.4 was refused, and the deployment stays at 2.5
C2_Witness ==
    /\ OtherwiseValidUpdate
    /\ OldRelease.Version = V2_5
    /\ NewRelease.Version = V2_4
    /\ call.result.err.isErr
    /\ RedisReleaseOf(deployed[1]).Version = V2_5

C10_NeverBelowEarlierVersion ==
    Succeeded /\ RedisReleaseOf(call.result.manifest).Version \in GrammarVersions
    => /\ highest # Nil
       /\ ~LexLower(RedisReleaseOf(call.result.manifest).Version, highest[1])

\* C10 amended: in every successful update, the version of the release that
\* provides redis-server is not lower than the version the release of that
\* name has in the previous manifest, unless one of the two is "latest";
\* versions separated by a manifest at "latest", or of differently named
\* releases, are not compared.
C10_NotBelowPreviousManifest ==
    Succeeded /\ IsUpdate =>
        /\ Cardinality(Providers) = 1
        /\ SameNamed # {}
        /\ NewRelease.Version # Latest /\ OldRelease.Version # Latest =>
              /\ NewRelease.Version \in GrammarVersions
              /\ OldRelease.Version \in GrammarVersions
              /\ ~LexLower(NewRelease.Version, OldRelease.Version)

\* an update from 2.5 to 2.10 succeeded
C10_Witness ==
    /\ Succeeded /\ IsUpdate
    /\ SameNamed # {}
    /\ OldRelease.Version = V2_5
    /\ NewRelease.Version = V2_10
    /\ highest = <<V2_10>>

-----------------------------------------------------------------------------
(* Properties of the binder under SpecBind *)

Created == bind.op = "CreateBinding"
Bound == Created /\ ~bind.result.err.isErr
Groups == DOMAIN bind.deploymentTopology
RedisServerAddresses == AddressesOf(bind.deploymentTopology, "redis-server")

\* the topology is one instance group holding one address
OneGroupOneAddress ==
    /\ Cardinality(Groups) = 1
    /\ \A g \in Groups : Len(bind.deploymentTopology[g]) = 1

GroupCountText(n) ==
    <<"expected 1 instance group in the Redis deployment, got ">> \o Itoa(n)
InstanceCountText(n) ==
    <<"expected redis-server instance group to have only 1 instance, got ">> \o Itoa(n)

\* C8 as stated: CreateBinding fails unless the topology is one instance
\* group holding one address; the error returned names the actual count and
\* tells a wrong group count from a wrong instance count; with one group and
\* one address the host of the binding is that address.
C8_ReturnedErrorNamesCount ==
    Created =>
        /\ Cardinality(Groups) # 1 =>
              bind.result.err = ErrorOf(GroupCountText(Cardinality(Groups)))
        /\ Cardinality(Groups) = 1 /\ ~OneGroupOneAddress =>
              \E g \in Groups :
                  bind.result.err = ErrorOf(InstanceCountText(Len(bind.deploymentTopology[g])))
        /\ OneGroupOneAddress /\ Bound =>
              \E g \in Groups :
                  bind.result.binding.Credentials[1].host = bind.deploymentTopology[g][1]

\* the topology is the instance group redis-server holding one address
OneRedisServerAddress == Groups = {"redis-server"} /\ Len(RedisServerAddresses) = 1

LastLogLine == bind.result.log[Len(bind.result.log)]

\* C8 amended: CreateBinding fails unless the topology is the one instance
\* group redis-server holding one address; the error returned has an empty
\* message, and the line logged names the actual count (of groups, or of the
\* addresses of redis-server, 0 when the one group has another name) and
\* tells a wrong group count from a wrong instance count; with that topology
\* the host of a binding is the address.
C8_LoggedErrorNamesCount ==
    Created =>
        /\ ~OneRedisServerAddress =>
              /\ bind.result.err = ErrorOf(<<>>)
              /\ bind.result.binding = EmptyBinding
              /\ bind.result.log # <<>>
              /\ LastLogLine =
                    IF Cardinality(Groups) # 1
                    THEN GroupCountText(Cardinality(Groups))
                    ELSE InstanceCountText(Len(RedisServerAddresses))
        /\ OneRedisServerAddress =>
              /\ bind.result.err # ErrorOf(<<>>)
              /\ Bound => bind.result.binding.Credentials[1].host = RedisServerAddresses[1]

\* a topology of the one group sidecar with one address was refused, the
\* line logged counting 0 instances of redis-server
C8_Witness ==
    /\ Created
    /\ Groups = {"sidecar"}
    /\ OneGroupOneAddress
    /\ bind.result.err = ErrorOf(<<>>)
    /\ LastLogLine = InstanceCountText(0)

SecretNames == {MyPath, OtherPath}
BoundProperties == redisPlanProperties(bind.manifest)

\* the manifest declares the secret ((name))
Declares(name) ==
    /\ "secret" \in DOMAIN BoundProperties
    /\ BoundProperties["secret"] = StringValue(CredhubRef(name))

BundleMaps(name) == bind.secrets # Nil /\ name \in DOMAIN bind.secrets[1]

\* C9 as stated: with a valid topology and a manifest declaring the secret
\* ((name)), a bundle that maps name to v gives a binding whose secret is v,
\* and a bundle with no entry for name gives an error naming name.
C9_SecretResolved ==
    \A name \in SecretNames :
        Created /\ OneRedisServerAddress /\ Declares(name) =>
            IF BundleMaps(name)
            THEN /\ Bound
                 /\ bind.result.binding.Credentials[1].secret = bind.secrets[1][name]
            ELSE /\ bind.result.err.isErr
                 /\ Mentions(bind.result.err.msg, name)

InterpolationText ==
    <<"manifest wasn't correctly interpolated: missing value for secret_pass">>

\* C9 amended: as C9, for a bundle that is absent or holds secret_pass; a
\* bundle that is present without secret_pass gives the interpolation
\* error, whatever else it holds.
C9_SecretResolvedWithSecretPass ==
    \A name \in SecretNames :
        Created /\ OneRedisServerAddress /\ Declares(name) =>
            IF bind.secrets # Nil /\ ~BundleMaps(SecretPassKey)
            THEN bind.result.err = ErrorOf(InterpolationText)
            ELSE IF BundleMaps(name)
            THEN /\ Bound
                 /\ bind.result.binding.Credentials[1].secret = bind.secrets[1][name]
            ELSE /\ bind.result.err.isErr
                 /\ bind.result.err.msg =
                       <<"secret '">> \o name
                       \o <<"' not present in manifest secrets passed to bind">>

\* the secret ((my/path)) was resolved to "xyz" from a bundle that also
\* holds secret_pass
C9_Witness ==
    /\ Bound
    /\ Declares(MyPath)
    /\ BundleMaps(MyPath) /\ BundleMaps(SecretPassKey)
    /\ bind.result.binding.Credentials[1].secret = "xyz"
    /\ bind.result.binding.Credentials[1].generated_secret = "generated"

====
